---- MODULE Spec2Model ----
(***************************************************************************)
(* pytest-kind: src/pytest_kind/cluster.py.                                *)
(*                                                                         *)
(* State machine of download_to_path and of the KindCluster operations     *)
(* (ensure_kind, ensure_kubectl, create, delete, load_docker_image,        *)
(* kubectl, port_forward) over a small file system, the external kind      *)
(* tool's cluster registry and the kubectl port-forward subprocesses.      *)
(*                                                                         *)
(* Spec         : one caller driving one handle (the single logical flow). *)
(* SpecPF       : the attempt loop of port_forward.                        *)
(* SpecDownload : download_to_path and the ensure_* operations.            *)
(* SpecInit     : the constructor, over its arguments.                     *)
(* SpecRace     : two callers running ensure_kind on the same cache path.  *)
(***************************************************************************)
EXTENDS Integers, Sequences, FiniteSets, TLC

(* ------------------------------ bounds -------------------------------- *)

\* chunks of a complete download body
NChunks == 2
\* largest `retries` argument a caller passes to port_forward
MaxRetries == 3
\* create-cluster runs the registry hands a fresh generation to
MaxGen == 2
\* inodes of the file system
MaxInode == 4
\* create-cluster runs of one create call that are counted
RunsCap == 2

(* ------------------------- program constants -------------------------- *)

\* random.randrange(5000, 30000)
PortLo == 5000
PortHi == 30000

Callers == {1, 2}

NoneVal == -1

(* ------------------------------ paths --------------------------------- *)

\* A file name is the sequence of its dot-separated parts:
\* "kind-v0.23.0" is <<"kind-v0", "23", "0">>.
KindPath == <<"kind-v0", "23", "0">>
KubectlPath == <<"kubectl-v1", "28", "9">>

\* Path.with_suffix: the last dot-separated part is the suffix it replaces.
WithSuffix(path, s) ==
    IF Len(path) > 1 THEN SubSeq(path, 1, Len(path) - 1) \o <<s>>
    ELSE path \o <<s>>

\* a plausible bug: the download is written in place
TmpFileInPlace(path) == path

\* tmp_file = path.with_suffix(".tmp")
TmpFile(path) == WithSuffix(path, "tmp")

BinPaths == {KindPath, KubectlPath}
Paths == BinPaths \cup {TmpFile(KindPath), TmpFile(KubectlPath)}

(* ------------------------------ the handle ---------------------------- *)

\* self.name and the name of some other cluster kind may list
Name == "pytest-kind"
OtherName == "other"

\* A path is a directory (its components) and a file name (its dot-separated
\* parts); NoPath stands for an argument that is not given (None).
NoPath == [dir |-> <<>>, file |-> <<>>]

\* a version is the sequence of its dot-separated parts; NoVersion: None
NoVersion == <<>>

\* _DEFAULT_KIND_VERSION = "v0.23.0", _DEFAULT_KUBECTL_VERSION = "v1.28.9"
DefaultKindVersion == <<"v0", "23", "0">>
DefaultKubectlVersion == <<"v1", "28", "9">>

\* f"kind-{version}", f"kubectl-{version}{_suffix}"
FileName(tool, version, suffix) ==
    <<tool \o "-" \o Head(version)>> \o Tail(version) \o suffix

\* self.path = Path(".pytest-kind") / name
StorageDir(name) == <<".pytest-kind", name>>

\* a plausible bug: the kubeconfig argument is ignored
InitKubeconfigPathDerived(name, kubeconfig) ==
    [dir |-> StorageDir(name), file |-> <<"kubeconfig">>]

\* self.kubeconfig_path = kubeconfig or (self.path / "kubeconfig")
InitKubeconfigPath(name, kubeconfig) ==
    IF kubeconfig # NoPath THEN kubeconfig
    ELSE [dir |-> StorageDir(name), file |-> <<"kubeconfig">>]

\* _suffix = ".exe" if self.platform == "windows" and not kubectl_path
ExeSuffix(platform, kubectl_path) ==
    IF platform = "windows" /\ kubectl_path = NoPath THEN <<"exe">> ELSE <<>>

\* the fields __init__ assigns, from its arguments `a`
Fields(a) ==
    LET kind_version == IF a.kind_version # NoVersion THEN a.kind_version
                        ELSE DefaultKindVersion
        kubectl_version == IF a.kubectl_version # NoVersion THEN a.kubectl_version
                           ELSE DefaultKubectlVersion
    IN [name |-> a.name,
        image |-> a.image,
        path |-> StorageDir(a.name),
        kubeconfig_path |-> InitKubeconfigPath(a.name, a.kubeconfig),
        kind_version |-> kind_version,
        kind_path |-> IF a.kind_path # NoPath THEN a.kind_path
                      ELSE [dir |-> StorageDir(a.name),
                            file |-> FileName("kind", kind_version, <<>>)],
        kubectl_version |-> kubectl_version,
        kubectl_path |-> IF a.kubectl_path # NoPath THEN a.kubectl_path
                         ELSE [dir |-> StorageDir(a.name),
                               file |-> FileName("kubectl", kubectl_version,
                                                 ExeSuffix(a.platform, a.kubectl_path))]]

\* KindCluster(name) on linux: every optional argument left out
DefaultArgs(name) ==
    [name |-> name, kubeconfig |-> NoPath, image |-> "", kind_path |-> NoPath,
     kubectl_path |-> NoPath, kind_version |-> NoVersion,
     kubectl_version |-> NoVersion, platform |-> "linux"]

\* an explicit kubeconfig argument, as in KindCluster("foo", Path("/tmp/test.yaml"))
CustomKubeconfig == [dir |-> <<"tmp">>, file |-> <<"test", "yaml">>]

\* the arguments the constructor is called with
CtorArgs ==
    [name : {Name, OtherName},
     kubeconfig : {NoPath, CustomKubeconfig},
     image : {"", "kindest/node"},
     kind_path : {NoPath, [dir |-> <<"opt">>, file |-> <<"kind">>]},
     kubectl_path : {NoPath, [dir |-> <<"opt">>, file |-> <<"kubectl">>]},
     kind_version : {NoVersion, <<"v0", "20", "0">>},
     kubectl_version : {NoVersion, <<"v1", "30", "0">>},
     platform : {"linux", "windows"}]

\* no handle has been constructed
NoArgs == [DefaultArgs("") EXCEPT !.platform = ""]
NoSelf ==
    [name |-> "", image |-> "", path |-> <<>>, kubeconfig_path |-> NoPath,
     kind_version |-> NoVersion, kind_path |-> NoPath,
     kubectl_version |-> NoVersion, kubectl_path |-> NoPath]

(* --------------------------- command lines ---------------------------- *)

\* [kind, "get", "clusters"]
GetClustersCmd(s) ==
    [path |-> s.kind_path, sub |-> "get clusters", name |-> "", kubeconfig |-> NoPath]

\* [kind, "create", "cluster", "--name", name, "--kubeconfig", kubeconfig_path, ...]
CreateClusterCmd(s) ==
    [path |-> s.kind_path, sub |-> "create cluster", name |-> s.name,
     kubeconfig |-> s.kubeconfig_path]

\* a plausible bug: delete leaves the --kubeconfig flag out
DeleteClusterCmdNoKubeconfig(s) ==
    [path |-> s.kind_path, sub |-> "delete cluster", name |-> s.name,
     kubeconfig |-> NoPath]

\* [kind, "delete", "cluster", "--name", name, "--kubeconfig", kubeconfig_path]
DeleteClusterCmd(s) ==
    [path |-> s.kind_path, sub |-> "delete cluster", name |-> s.name,
     kubeconfig |-> s.kubeconfig_path]

\* [kind, "load", "docker-image", "--name", name, docker_image]
LoadDockerImageCmd(s) ==
    [path |-> s.kind_path, sub |-> "load docker-image", name |-> s.name,
     kubeconfig |-> NoPath]

\* [kubectl, *args] with KUBECONFIG=kubeconfig_path in its environment
KubectlCmd(s) ==
    [path |-> s.kubectl_path, sub |-> "args", name |-> "",
     kubeconfig |-> s.kubeconfig_path]

\* [kubectl, "port-forward", ...] with KUBECONFIG=kubeconfig_path
PortForwardCmd(s) ==
    [path |-> s.kubectl_path, sub |-> "port-forward", name |-> "",
     kubeconfig |-> s.kubeconfig_path]

VARIABLES
    self,       \* the fields of the handle: name, image, path, the paths and versions
    ctor,       \* the arguments the handle was constructed with
    dirs,       \* the storage directories that exist
    launches,   \* the commands the current call has launched: [cmd, present]
    fs,         \* path -> inode it names, 0 when no file is there
    inodes,     \* inode -> [content, exec]
    pc,         \* caller -> position in the code
    op,         \* caller -> the operation it runs (or has last run)
    err,        \* caller -> the error the operation raised, "none" if none
    fault,      \* caller -> the failure the environment injected into the operation
    dl,         \* caller -> locals of download_to_path
    kubeconfig, \* the file at kubeconfig_path: [exists, creds], creds 0 when it holds none
                \* of the cluster (it is empty, or holds other clusters' entries only)
    cluster,    \* generation of the cluster `kind get clusters` lists under name, 0 if none
    others,     \* TRUE when kind lists a cluster of another name
    nextGen,    \* generations handed out so far
    emptyLoads, \* whether pykube builds a client from a file without the cluster's
                \* credentials (it does from one that holds another cluster's context)
    api,        \* self.api: [set, creds], creds the generation its credentials are of
    hist,       \* the last create or delete call that succeeded: "none", "created", "deleted"
    cr,         \* locals and per-call history of create
    pf,         \* locals and per-call history of port_forward
    procs       \* the port-forward processes the session launched, in launch order

fsVars == <<fs, inodes>>
callVars == <<pc, op, err, fault, dl>>
handleVars == <<api, hist, cr, pf, procs>>
envVars == <<kubeconfig, cluster, others, nextGen, emptyLoads>>
selfVars == <<self, ctor, dirs>>
vars == <<self, ctor, dirs, launches, fs, inodes, pc, op, err, fault, dl, kubeconfig, cluster, others,
          nextGen, emptyLoads, api, hist, cr, pf, procs>>

(* --------------------------- file system ------------------------------ *)

EmptyInode == [content |-> <<>>, exec |-> FALSE]
FullContent == [i \in 1..NChunks |-> 1]
FullInode == [content |-> FullContent, exec |-> TRUE]

Exists(path) == fs[path] # 0
Complete(ino) == inodes[ino].content = FullContent

\* an inode no path names and no open descriptor refers to
Referenced(f, d) == {f[q] : q \in Paths} \cup {d[p].fd : p \in Callers}
FreeInode == CHOOSE i \in 1..MaxInode :
    /\ i \notin Referenced(fs, dl)
    /\ \A j \in 1..MaxInode : j \notin Referenced(fs, dl) => i <= j
HasFreeInode == \E i \in 1..MaxInode : i \notin Referenced(fs, dl)

\* the inode table with the inodes nothing refers to any more cleared
Collect(tbl, f, d) ==
    [i \in 1..MaxInode |-> IF i \in Referenced(f, d) THEN tbl[i] ELSE EmptyInode]

\* fd.write(chunk) at offset `off` (in chunks): a gap left by a truncation
\* under the writer reads back as a hole (0)
WriteAt(content, off) ==
    LET n == IF Len(content) > off + 1 THEN Len(content) ELSE off + 1
    IN [i \in 1..n |-> IF i = off + 1 THEN 1
                       ELSE IF i <= Len(content) THEN content[i] ELSE 0]

\* locals of download_to_path: the target path, the open descriptor's inode
\* and offset, whether umask is given; `before` records the inode the target
\* path named when the call began
NoDl == [path |-> <<>>, fd |-> 0, off |-> 0, umask |-> FALSE, before |-> 0]

(* ----------------------- control flow helpers -------------------------- *)

\* an exception leaves the operation: the caller is back with the error
Raise(p, e) ==
    /\ pc' = [pc EXCEPT ![p] = "idle"]
    /\ err' = [err EXCEPT ![p] = e]
    /\ UNCHANGED fault

\* the environment makes a call fail (a tool exits non-zero, the network
\* breaks): the exception `e` leaves the operation
Fail(p, f, e) ==
    /\ pc' = [pc EXCEPT ![p] = "idle"]
    /\ err' = [err EXCEPT ![p] = e]
    /\ fault' = [fault EXCEPT ![p] = f]

Goto(p, l) ==
    /\ pc' = [pc EXCEPT ![p] = l]
    /\ UNCHANGED <<err, fault>>

\* where ensure_kind / ensure_kubectl return to
AfterEnsure(p) ==
    CASE op[p] = "create" -> "cr_touch"
      [] op[p] = "kubectl" -> "kc_run"
      [] OTHER -> "idle"

(* -------------------------- download_to_path --------------------------- *)

\* requests.get(url, stream=True) and r.raise_for_status()
DlGet(p) ==
    /\ pc[p] = "dl_get"
    /\ \/ Goto(p, "dl_open")
       \/ Fail(p, "network", "ConnectionError")
       \/ Fail(p, "status", "HTTPError")
    /\ UNCHANGED <<selfVars, launches>>
    /\ UNCHANGED <<fsVars, op, dl, envVars, handleVars>>

\* tmp_file.open("wb"): creates the file, or truncates the one that is there
DlOpen(p) ==
    /\ pc[p] = "dl_open"
    /\ LET tmp == TmpFile(dl[p].path) IN
       IF Exists(tmp)
       THEN /\ inodes' = [inodes EXCEPT ![fs[tmp]].content = <<>>]
            /\ dl' = [dl EXCEPT ![p].fd = fs[tmp], ![p].off = 0]
            /\ UNCHANGED fs
       ELSE /\ HasFreeInode
            /\ fs' = [fs EXCEPT ![tmp] = FreeInode]
            /\ inodes' = [inodes EXCEPT ![FreeInode] = EmptyInode]
            /\ dl' = [dl EXCEPT ![p].fd = FreeInode, ![p].off = 0]
    /\ Goto(p, "dl_write")
    /\ UNCHANGED <<selfVars, launches>>
    /\ UNCHANGED <<op, envVars, handleVars>>

\* one round of the loop over r.iter_content: fd.write(chunk)
DlWrite(p) ==
    /\ pc[p] = "dl_write"
    /\ dl[p].off < NChunks
    /\ inodes' = [inodes EXCEPT ![dl[p].fd].content = WriteAt(@, dl[p].off)]
    /\ dl' = [dl EXCEPT ![p].off = @ + 1]
    /\ Goto(p, "dl_write")
    /\ UNCHANGED <<selfVars, launches>>
    /\ UNCHANGED <<fs, op, envVars, handleVars>>

\* the stream breaks before its end: iter_content raises, the with blocks
\* close the descriptor, tmp_file stays as it is
DlStreamFail(p) ==
    /\ pc[p] = "dl_write"
    /\ dl[p].off < NChunks
    /\ dl' = [dl EXCEPT ![p].fd = 0]
    /\ inodes' = Collect(inodes, fs, dl')
    /\ Fail(p, "stream", "ChunkedEncodingError")
    /\ UNCHANGED <<selfVars, launches>>
    /\ UNCHANGED <<fs, op, envVars, handleVars>>

\* the stream ends: both with blocks exit and close the descriptor
DlClose(p) ==
    /\ pc[p] = "dl_write"
    /\ dl[p].off = NChunks
    /\ dl' = [dl EXCEPT ![p].fd = 0]
    /\ inodes' = Collect(inodes, fs, dl')
    /\ Goto(p, "dl_chmod")
    /\ UNCHANGED <<selfVars, launches>>
    /\ UNCHANGED <<fs, op, envVars, handleVars>>

\* if umask: tmp_file.chmod(umask)
DlChmod(p) ==
    /\ pc[p] = "dl_chmod"
    /\ LET tmp == TmpFile(dl[p].path) IN
       IF ~dl[p].umask
       THEN Goto(p, "dl_rename") /\ UNCHANGED inodes
       ELSE IF ~Exists(tmp)
       THEN Raise(p, "FileNotFoundError") /\ UNCHANGED inodes
       ELSE /\ inodes' = [inodes EXCEPT ![fs[tmp]].exec = TRUE]
            /\ Goto(p, "dl_rename")
    /\ UNCHANGED <<selfVars, launches>>
    /\ UNCHANGED <<fs, op, dl, envVars, handleVars>>

\* tmp_file.rename(path), and the return to whoever called
DlRename(p) ==
    /\ pc[p] = "dl_rename"
    /\ LET tmp == TmpFile(dl[p].path) IN
       IF ~Exists(tmp)
       THEN Raise(p, "FileNotFoundError") /\ UNCHANGED <<fs, inodes>>
       ELSE /\ fs' = [q \in Paths |-> IF q = dl[p].path THEN fs[tmp]
                                      ELSE IF q = tmp THEN 0 ELSE fs[q]]
            /\ inodes' = Collect(inodes, fs', dl)
            /\ Goto(p, IF op[p] = "download" THEN "idle" ELSE AfterEnsure(p))
    /\ UNCHANGED <<selfVars, launches>>
    /\ UNCHANGED <<op, dl, envVars, handleVars>>

(* ------------------- ensure_kind / ensure_kubectl ---------------------- *)

\* a plausible bug: the presence check is dropped
DownloadAlways(path) == TRUE

\* a plausible bug: the binary is taken to be there
DownloadNever(path) == FALSE

\* if not self.kind_path.exists() / if not self.kubectl_path.exists()
NeedsDownload(path) == ~Exists(path)

Ensure(p, path) ==
    IF NeedsDownload(path)
    THEN /\ dl' = [dl EXCEPT ![p] = [path |-> path, fd |-> 0, off |-> 0,
                                     umask |-> TRUE, before |-> fs[path]]]
         /\ Goto(p, "dl_get")
    ELSE /\ Goto(p, AfterEnsure(p))
         /\ UNCHANGED dl

EnsureKind(p) ==
    /\ pc[p] = "ek_check"
    /\ Ensure(p, KindPath)
    /\ UNCHANGED <<selfVars, launches>>
    /\ UNCHANGED <<fsVars, op, envVars, handleVars>>

EnsureKubectl(p) ==
    /\ pc[p] = "eu_check"
    /\ Ensure(p, KubectlPath)
    /\ UNCHANGED <<selfVars, launches>>
    /\ UNCHANGED <<fsVars, op, envVars, handleVars>>

(* --------------------- launching an external tool ---------------------- *)

\* subprocess is handed the command `cmd`, whose binary is the file `path`
\* of the cache; `present` records whether that file was there
Launched(ls, cmd, path) == ls \cup {[cmd |-> cmd, present |-> Exists(path)]}

\* What subprocess makes of the file at `path`: no file is FileNotFoundError,
\* a file without the executable bit PermissionError, a file that is not the
\* whole binary cannot be executed.
LaunchError(path) ==
    CASE ~Exists(path) -> "FileNotFoundError"
      [] ~inodes[fs[path]].exec -> "PermissionError"
      [] ~Complete(fs[path]) -> "OSError"
      [] OTHER -> "none"

\* stdout of `kind get clusters`, one name per line
GetClustersOutput ==
    (IF cluster # 0 THEN {Name} ELSE {}) \cup (IF others THEN {OtherName} ELSE {})

\* a plausible bug: any output at all counts as "the cluster exists"
ListedAny(out, name) == out # {}

\* a plausible bug: the listing is ignored
ListedNever(out, name) == FALSE

\* for name in out.splitlines(): if name == self.name: cluster_exists = True
Listed(out, name) == \E line \in out : line = name

\* create's local cluster_exists, and what the call has done so far: the
\* create-cluster runs it made, what its last look at the credentials file
\* found ("none", "absent", "present"), and what preceded the call
NoCr == [cluster_exists |-> FALSE, runs |-> 0, lastCheck |-> "none", startEv |-> "none"]

(* ------------------------------- delete -------------------------------- *)

\* `kind delete cluster --name=... --kubeconfig=...` with check=True.  A run
\* that exits 0 leaves no cluster of the name; it keeps the credentials
\* file or strips the cluster's entries from it.
KindDelete(p, next) ==
    /\ launches' = Launched(launches, DeleteClusterCmd(self), KindPath)
    /\ IF LaunchError(KindPath) # "none"
       THEN /\ Raise(p, LaunchError(KindPath))
            /\ UNCHANGED <<envVars, hist>>
       ELSE \/ /\ Fail(p, "exit", "CalledProcessError")
               /\ UNCHANGED <<envVars, hist>>
            \/ /\ cluster' = 0
               /\ \E strip \in BOOLEAN :
                    kubeconfig' = IF strip /\ kubeconfig.exists
                                  THEN [exists |-> TRUE, creds |-> 0]
                                  ELSE kubeconfig
               /\ hist' = "deleted"
               /\ Goto(p, next)
               /\ UNCHANGED <<others, nextGen, emptyLoads>>

Delete(p) ==
    /\ pc[p] = "del_run"
    /\ KindDelete(p, "idle")
    /\ UNCHANGED selfVars
    /\ UNCHANGED <<fsVars, op, dl, api, cr, pf, procs>>

(* ------------------------------- create -------------------------------- *)

\* self.kubeconfig_path.touch(0o600, exist_ok=True); cluster_exists = False
CreateTouch(p) ==
    /\ pc[p] = "cr_touch"
    /\ kubeconfig' = IF kubeconfig.exists THEN kubeconfig
                     ELSE [exists |-> TRUE, creds |-> 0]
    /\ cr' = [cr EXCEPT !.cluster_exists = FALSE]
    /\ Goto(p, "cr_get")
    /\ UNCHANGED <<selfVars, launches>>
    /\ UNCHANGED <<fsVars, op, dl, cluster, others, nextGen, emptyLoads,
                   api, hist, pf, procs>>

\* a plausible bug: a failed tool run is retried instead of propagated
CreateFailRetry(p) ==
    /\ pc' = [pc EXCEPT ![p] = "cr_get"]
    /\ fault' = [fault EXCEPT ![p] = "exit"]
    /\ UNCHANGED err

\* subprocess.check_output / subprocess.run(check=True) in create: a
\* non-zero exit raises CalledProcessError out of create
CreateFail(p) == Fail(p, "exit", "CalledProcessError")

\* out = subprocess.check_output([kind, "get", "clusters"]) and the scan of it
CreateGetClusters(p) ==
    /\ pc[p] = "cr_get"
    /\ launches' = Launched(launches, GetClustersCmd(self), KindPath)
    /\ IF LaunchError(KindPath) # "none"
       THEN Raise(p, LaunchError(KindPath)) /\ UNCHANGED cr
       ELSE \/ CreateFail(p) /\ UNCHANGED cr
            \/ LET found == Listed(GetClustersOutput, Name) IN
               /\ cr' = [cr EXCEPT !.cluster_exists = found]
               /\ Goto(p, IF found THEN "cr_check" ELSE "cr_create")
    /\ UNCHANGED selfVars
    /\ UNCHANGED <<fsVars, op, dl, envVars, api, hist, pf, procs>>

\* one more create-cluster run of the call, counted up to RunsCap
CountRun(n) == IF n < RunsCap THEN n + 1 ELSE n

\* subprocess.run(create_cmd, check=True); cluster_exists = True.  kind
\* refuses a name that is taken; a run that exits 0 has made a new cluster
\* and written its credentials, or (the inconsistent case create repairs)
\* left no credentials file.  Only credentials carry a generation: the
\* cluster of a run that wrote none has the number of the next one, which
\* no file and no client holds while that cluster lives.
CreateCluster(p) ==
    /\ pc[p] = "cr_create"
    /\ launches' = Launched(launches, CreateClusterCmd(self), KindPath)
    /\ IF LaunchError(KindPath) # "none"
       THEN Raise(p, LaunchError(KindPath)) /\ UNCHANGED <<envVars, hist, cr>>
       ELSE \/ /\ CreateFail(p)
               /\ cr' = [cr EXCEPT !.runs = CountRun(@)]
               /\ UNCHANGED <<envVars, hist>>
            \/ /\ cluster = 0
               /\ cr' = [cr EXCEPT !.runs = CountRun(@), !.cluster_exists = TRUE]
               /\ cluster' = nextGen + 1
               /\ \E written \in BOOLEAN :
                    IF written
                    THEN /\ nextGen < MaxGen
                         /\ nextGen' = nextGen + 1
                         /\ kubeconfig' = [exists |-> TRUE, creds |-> nextGen + 1]
                    ELSE /\ nextGen' = nextGen
                         /\ kubeconfig' = [exists |-> FALSE, creds |-> 0]
               /\ hist' = "none"
               /\ Goto(p, "cr_check")
               /\ UNCHANGED <<others, emptyLoads>>
    /\ UNCHANGED selfVars
    /\ UNCHANGED <<fsVars, op, dl, api, pf, procs>>

\* a plausible bug: a missing credentials file is not repaired
AfterCheckNoRepair(exists) == "cr_load"

\* if not self.kubeconfig_path.exists(): self.delete() ... and round the
\* loop again; else the loop is over
AfterCheck(exists) == IF ~exists THEN "cr_delete" ELSE "cr_load"

\* if not self.kubeconfig_path.exists(): ... ; then the test of the while
CreateCheck(p) ==
    /\ pc[p] = "cr_check"
    /\ Goto(p, AfterCheck(kubeconfig.exists))
    /\ cr' = [cr EXCEPT !.lastCheck = IF kubeconfig.exists THEN "present" ELSE "absent"]
    /\ UNCHANGED <<selfVars, launches>>
    /\ UNCHANGED <<fsVars, op, dl, envVars, api, hist, pf, procs>>

\* self.delete(); cluster_exists = False; and around the loop again
CreateDelete(p) ==
    /\ pc[p] = "cr_delete"
    /\ KindDelete(p, "cr_get")
    /\ cr' = [cr EXCEPT !.cluster_exists = FALSE]
    /\ UNCHANGED selfVars
    /\ UNCHANGED <<fsVars, op, dl, api, pf, procs>>

\* config = pykube.KubeConfig.from_file(...); self.api = pykube.HTTPClient(config)
CreateLoad(p) ==
    /\ pc[p] = "cr_load"
    /\ IF kubeconfig.creds = 0 /\ ~emptyLoads
       THEN Raise(p, "PyKubeError") /\ UNCHANGED <<api, hist>>
       ELSE /\ api' = [set |-> TRUE, creds |-> kubeconfig.creds]
            /\ hist' = "created"
            /\ Goto(p, "idle")
    /\ UNCHANGED <<selfVars, launches>>
    /\ UNCHANGED <<fsVars, op, dl, envVars, cr, pf, procs>>

(* ---------------------- kubectl, load_docker_image --------------------- *)

\* subprocess.check_output([kubectl, *args], env=...)
Kubectl(p) ==
    /\ pc[p] = "kc_run"
    /\ launches' = Launched(launches, KubectlCmd(self), KubectlPath)
    /\ IF LaunchError(KubectlPath) # "none"
       THEN Raise(p, LaunchError(KubectlPath))
       ELSE \/ Fail(p, "exit", "CalledProcessError")
            \/ Goto(p, "idle")
    /\ UNCHANGED selfVars
    /\ UNCHANGED <<fsVars, op, dl, envVars, handleVars>>

\* subprocess.run([kind, "load", "docker-image", ...], check=True)
LoadDockerImage(p) ==
    /\ pc[p] = "ld_run"
    /\ launches' = Launched(launches, LoadDockerImageCmd(self), KindPath)
    /\ IF LaunchError(KindPath) # "none"
       THEN Raise(p, LaunchError(KindPath))
       ELSE \/ Fail(p, "exit", "CalledProcessError")
            \/ Goto(p, "idle")
    /\ UNCHANGED selfVars
    /\ UNCHANGED <<fsVars, op, dl, envVars, handleVars>>

(* ----------------------------- port_forward ---------------------------- *)

\* the local_port arguments callers pass (NoneVal: not given)
LocalPortArgs == {NoneVal, 0, 8080}

\* the values of random.randrange(5000, 30000) the model draws
RandomPorts == {PortLo, PortHi - 1}

\* port_to_use = local_port or random.randrange(5000, 30000)
PortChoices(local_port) ==
    IF local_port # NoneVal /\ local_port # 0 THEN {local_port} ELSE RandomPorts

\* a plausible bug: no retry, the first failure is raised
IsLastAttemptAlways(i, retries) == TRUE

\* a plausible bug: off by one, the last attempt's failure is swallowed
IsLastAttemptOffByOne(i, retries) == i >= retries

\* if i >= retries - 1
IsLastAttempt(i, retries) == i >= retries - 1

NoPf == [retries |-> 0, local_port |-> NoneVal, i |-> 0, port_to_use |-> NoneVal,
         yielded |-> NoneVal, exit |-> "none"]

LastProc(ps) == ps[Len(ps)]

\* if proc: proc.kill() -- proc is the process launched last, if any;
\* killing a process that has exited changes nothing
KillLast(ps) ==
    IF ps # <<>> /\ LastProc(ps).st = "running"
    THEN [ps EXCEPT ![Len(ps)].st = "killed"]
    ELSE ps

\* a plausible bug: a retry leaves the previous attempt's process alone
KillPreviousSkipped(ps) == ps

\* at the head of every round: if proc: proc.kill()
KillPrevious(ps) == KillLast(ps)

\* a plausible bug: the kill follows the yield without try/finally
FinallyOnlyNormal(ps, how) == IF how = "normal" THEN KillLast(ps) ELSE ps

\* finally: if proc: proc.kill()
Finally(ps, how) == KillLast(ps)

\* for i in range(retries): if proc: proc.kill() -- or, the loop over,
\* try: yield port_to_use
PfLoop(p) ==
    /\ pc[p] = "pf_loop"
    /\ IF pf.i < pf.retries
       THEN /\ procs' = KillPrevious(procs)
            /\ Goto(p, "pf_launch")
            /\ UNCHANGED pf
       ELSE IF pf.port_to_use = NoneVal
       THEN \* port_to_use was never bound: UnboundLocalError inside the
            \* try, and the finally finds proc None
            /\ procs' = Finally(procs, "raise")
            /\ Raise(p, "UnboundLocalError")
            /\ UNCHANGED pf
       ELSE /\ pf' = [pf EXCEPT !.yielded = pf.port_to_use]
            /\ Goto(p, "pf_block")
            /\ UNCHANGED procs
    /\ UNCHANGED <<selfVars, launches>>
    /\ UNCHANGED <<fsVars, op, dl, envVars, api, hist, cr>>

\* port_to_use = ...; proc = subprocess.Popen([kubectl, "port-forward", ...])
PfLaunch(p) ==
    /\ pc[p] = "pf_launch"
    /\ launches' = Launched(launches, PortForwardCmd(self), KubectlPath)
    /\ \E port \in PortChoices(pf.local_port) :
         /\ pf' = [pf EXCEPT !.port_to_use = port]
         /\ IF LaunchError(KubectlPath) # "none"
            THEN Raise(p, LaunchError(KubectlPath)) /\ UNCHANGED procs
            ELSE /\ procs' = Append(procs, [port |-> port, st |-> "running",
                                            poll |-> "none", conn |-> "none"])
                 /\ Goto(p, "pf_poll")
    /\ UNCHANGED selfVars
    /\ UNCHANGED <<fsVars, op, dl, envVars, api, hist, cr>>

\* time.sleep(1); returncode = proc.poll(); if returncode is not None: ...
PfPoll(p) ==
    /\ pc[p] = "pf_poll"
    /\ \/ /\ procs' = [procs EXCEPT ![Len(procs)].st = "exited",
                                     ![Len(procs)].poll = "exited"]
          /\ IF IsLastAttempt(pf.i, pf.retries)
             THEN Raise(p, "Exception") /\ UNCHANGED pf
             ELSE /\ pf' = [pf EXCEPT !.i = @ + 1]
                  /\ Goto(p, "pf_loop")
       \/ /\ procs' = [procs EXCEPT ![Len(procs)].poll = "running"]
          /\ Goto(p, "pf_connect")
          /\ UNCHANGED pf
    /\ UNCHANGED <<selfVars, launches>>
    /\ UNCHANGED <<fsVars, op, dl, envVars, api, hist, cr>>

\* s.connect(("127.0.0.1", port_to_use)); except: if i >= retries - 1: raise
PfConnect(p) ==
    /\ pc[p] = "pf_connect"
    /\ \/ /\ procs' = [procs EXCEPT ![Len(procs)].conn = "fail"]
          /\ IF IsLastAttempt(pf.i, pf.retries)
             THEN Raise(p, "ConnectionRefusedError") /\ UNCHANGED pf
             ELSE /\ pf' = [pf EXCEPT !.i = @ + 1]
                  /\ Goto(p, "pf_loop")
       \/ /\ procs' = [procs EXCEPT ![Len(procs)].conn = "ok"]
          /\ pf' = [pf EXCEPT !.i = @ + 1]
          /\ Goto(p, "pf_loop")
    /\ UNCHANGED <<selfVars, launches>>
    /\ UNCHANGED <<fsVars, op, dl, envVars, api, hist, cr>>

\* the caller's with block ends (falls through, returns early or raises)
\* and the generator's finally runs
PfBlock(p) ==
    /\ pc[p] = "pf_block"
    /\ \E how \in {"normal", "return", "raise"} :
         /\ procs' = Finally(procs, how)
         /\ pf' = [pf EXCEPT !.exit = how]
         /\ IF how = "raise" THEN Raise(p, "BlockError") ELSE Goto(p, "idle")
    /\ UNCHANGED <<selfVars, launches>>
    /\ UNCHANGED <<fsVars, op, dl, envVars, api, hist, cr>>

(* ------------------------------ the caller ----------------------------- *)

\* A call starts with fresh locals; what the model recorded of the call
\* before it is dropped.
Begin(p, o, l) ==
    /\ pc[p] = "idle"
    /\ pc' = [pc EXCEPT ![p] = l]
    /\ op' = [op EXCEPT ![p] = o]
    /\ err' = [err EXCEPT ![p] = "none"]
    /\ fault' = [fault EXCEPT ![p] = "none"]
    /\ launches' = {}
    /\ UNCHANGED selfVars
    /\ UNCHANGED <<fsVars, envVars, api, hist>>

\* a plausible bug: every operation provisions its binary first
FirstStepEnsure(o) == IF o = "port_forward" THEN "eu_check" ELSE "ek_check"

\* where delete, load_docker_image and port_forward start: at their
\* subprocess call (port_forward at its attempt loop), with no ensure_kind
\* or ensure_kubectl before it
FirstStep(o) ==
    CASE o = "delete" -> "del_run"
      [] o = "load_docker_image" -> "ld_run"
      [] o = "port_forward" -> "pf_loop"

Fresh(p) ==
    /\ dl' = [dl EXCEPT ![p] = NoDl]
    /\ cr' = NoCr
    /\ pf' = NoPf
    /\ procs' = <<>>

CallEnsureKind(p) ==
    /\ Begin(p, "ensure_kind", "ek_check")
    /\ Fresh(p)

CallEnsureKubectl(p) ==
    /\ Begin(p, "ensure_kubectl", "eu_check")
    /\ Fresh(p)

\* create(): self.ensure_kind() first
CallCreate(p) ==
    /\ Begin(p, "create", "ek_check")
    /\ cr' = [NoCr EXCEPT !.startEv = hist]
    /\ dl' = [dl EXCEPT ![p] = NoDl]
    /\ pf' = NoPf
    /\ procs' = <<>>

CallDelete(p) ==
    /\ Begin(p, "delete", FirstStep("delete"))
    /\ Fresh(p)

\* kubectl(): self.ensure_kubectl() first
CallKubectl(p) ==
    /\ Begin(p, "kubectl", "eu_check")
    /\ Fresh(p)

CallLoadDockerImage(p) ==
    /\ Begin(p, "load_docker_image", FirstStep("load_docker_image"))
    /\ Fresh(p)

\* port_forward(..., local_port=lp, retries=r) with r up to maxRetries:
\* port_to_use unbound, proc = None
CallPortForward(p, maxRetries) ==
    /\ Begin(p, "port_forward", FirstStep("port_forward"))
    /\ \E r \in 0..maxRetries, lp \in LocalPortArgs :
         pf' = [NoPf EXCEPT !.retries = r, !.local_port = lp]
    /\ procs' = <<>>
    /\ cr' = NoCr
    /\ dl' = [dl EXCEPT ![p] = NoDl]

\* download_to_path(url, path, umask) called on its own
CallDownload(p) ==
    /\ Begin(p, "download", "dl_get")
    /\ \E path \in BinPaths, um \in BOOLEAN :
         dl' = [dl EXCEPT ![p] = [path |-> path, fd |-> 0, off |-> 0,
                                  umask |-> um, before |-> fs[path]]]
    /\ UNCHANGED <<cr, pf, procs>>

\* a plausible bug: the constructor goes on to provision the kind binary
AfterInitEager(a) == "ek_check"

\* __init__ is over after its last assignment
AfterInit(a) == "idle"

\* KindCluster(name, kubeconfig, image, kind_path, kubectl_path,
\* kind_version=..., kubectl_version=...): the fields are assigned and the
\* storage directory is made (mkdir(parents=True, exist_ok=True)); the new
\* object has no api attribute
Construct(p) ==
    /\ pc[p] = "idle"
    /\ \E a \in CtorArgs :
         /\ ctor' = a
         /\ self' = Fields(a)
         /\ dirs' = dirs \cup {StorageDir(a.name)}
         /\ pc' = [pc EXCEPT ![p] = AfterInit(a)]
    /\ op' = [op EXCEPT ![p] = "__init__"]
    /\ err' = [err EXCEPT ![p] = "none"]
    /\ fault' = [fault EXCEPT ![p] = "none"]
    /\ api' = [set |-> FALSE, creds |-> 0]
    /\ launches' = {}
    /\ UNCHANGED <<fsVars, dl, envVars, hist, cr, pf, procs>>

(* --------------------------- specifications ---------------------------- *)

\* the binaries a run starts with: none, or the ones an earlier run cached
InitFs ==
    /\ \E k, u \in BOOLEAN :
         /\ fs = [q \in Paths |-> IF q = KindPath /\ k THEN 1
                                  ELSE IF q = KubectlPath /\ u THEN 2 ELSE 0]
         /\ inodes = [i \in 1..MaxInode |->
                         IF (i = 1 /\ k) \/ (i = 2 /\ u) THEN FullInode ELSE EmptyInode]

InitCallers ==
    /\ pc = [p \in Callers |-> "idle"]
    /\ op = [p \in Callers |-> "none"]
    /\ err = [p \in Callers |-> "none"]
    /\ fault = [p \in Callers |-> "none"]
    /\ dl = [p \in Callers |-> NoDl]

\* the handle after KindCluster(Name) or KindCluster(Name, CustomKubeconfig)
InitSelf ==
    /\ ctor \in {DefaultArgs(Name), [DefaultArgs(Name) EXCEPT !.kubeconfig = CustomKubeconfig]}
    /\ self = Fields(ctor)
    /\ dirs = {StorageDir(Name)}
    /\ launches = {}

InitHandle ==
    /\ InitSelf
    /\ api = [set |-> FALSE, creds |-> 0]
    /\ hist = "none"
    /\ cr = NoCr
    /\ pf = NoPf
    /\ procs = <<>>

\* what an earlier run may have left: a cluster of the name (generation 1)
\* or none, and a credentials file that is absent, empty or holds the
\* credentials of generation 1
Init ==
    /\ InitFs
    /\ InitCallers
    /\ InitHandle
    /\ nextGen \in {0, 1}
    /\ cluster \in {0, nextGen}
    /\ kubeconfig \in {[exists |-> FALSE, creds |-> 0], [exists |-> TRUE, creds |-> 0],
                        [exists |-> TRUE, creds |-> nextGen]}
    /\ others \in BOOLEAN
    /\ emptyLoads \in BOOLEAN

Download(p) ==
    \/ DlGet(p) \/ DlOpen(p) \/ DlWrite(p) \/ DlStreamFail(p)
    \/ DlClose(p) \/ DlChmod(p) \/ DlRename(p)

PortForward(p) ==
    PfLoop(p) \/ PfLaunch(p) \/ PfPoll(p) \/ PfConnect(p) \/ PfBlock(p)

\* One caller drives one handle through its operations.  A port_forward
\* session here makes at most one attempt; SpecPF explores the attempt loop.
Next ==
    \/ CallEnsureKind(1) \/ CallEnsureKubectl(1) \/ CallCreate(1)
    \/ CallDelete(1) \/ CallKubectl(1) \/ CallLoadDockerImage(1)
    \/ CallPortForward(1, 1)
    \/ EnsureKind(1) \/ EnsureKubectl(1) \/ Download(1)
    \/ CreateTouch(1) \/ CreateGetClusters(1) \/ CreateCluster(1)
    \/ CreateCheck(1) \/ CreateDelete(1) \/ CreateLoad(1)
    \/ Delete(1) \/ Kubectl(1) \/ LoadDockerImage(1)
    \/ PortForward(1)

Spec == Init /\ [][Next]_vars

\* the environment of the specifications that leave the cluster alone
InitNoCluster ==
    /\ nextGen = 0
    /\ cluster = 0
    /\ kubeconfig = [exists |-> FALSE, creds |-> 0]
    /\ others = FALSE
    /\ emptyLoads = FALSE

\* port_forward sessions of one caller, the kubectl binary cached or not
InitPF ==
    /\ InitFs
    /\ InitCallers
    /\ InitHandle
    /\ InitNoCluster

NextPF == CallPortForward(1, MaxRetries) \/ PortForward(1)

SpecPF == InitPF /\ [][NextPF]_vars

\* one caller provisioning binaries: ensure_kind, ensure_kubectl and
\* download_to_path called on its own
InitDownload ==
    /\ InitFs
    /\ InitCallers
    /\ InitHandle
    /\ InitNoCluster

NextDownload ==
    \/ CallEnsureKind(1) \/ CallEnsureKubectl(1) \/ CallDownload(1)
    \/ EnsureKind(1) \/ EnsureKubectl(1) \/ Download(1)

SpecDownload == InitDownload /\ [][NextDownload]_vars

\* handles are constructed, of any name and with any optional arguments,
\* next to what an earlier run left
InitInit ==
    /\ InitFs
    /\ InitCallers
    /\ self = NoSelf
    /\ ctor = NoArgs
    /\ dirs = {}
    /\ launches = {}
    /\ api = [set |-> FALSE, creds |-> 0]
    /\ hist = "none"
    /\ cr = NoCr
    /\ pf = NoPf
    /\ procs = <<>>
    /\ nextGen = 1
    /\ cluster \in {0, 1}
    /\ kubeconfig \in {[exists |-> FALSE, creds |-> 0], [exists |-> TRUE, creds |-> 0],
                        [exists |-> TRUE, creds |-> 1]}
    /\ others = FALSE
    /\ emptyLoads = FALSE

NextInit == Construct(1)

SpecInit == InitInit /\ [][NextInit]_vars

\* two callers, each its own handle of the same name, find no kind binary
InitRace ==
    /\ fs = [q \in Paths |-> 0]
    /\ inodes = [i \in 1..MaxInode |-> EmptyInode]
    /\ InitCallers
    /\ InitHandle
    /\ InitNoCluster

NextRace ==
    \E p \in Callers : CallEnsureKind(p) \/ EnsureKind(p) \/ Download(p)

SpecRace == InitRace /\ [][NextRace]_vars

(* ------------------------------- claims -------------------------------- *)

AllDead == \A k \in 1..Len(procs) : procs[k].st # "running"

\* C1: once port_forward has yielded a port, the exit of the caller's block
\* (normal, early return or raised error) kills the background process: back
\* in the caller, no process the session launched is running.
C1_ScopeExitKillsProcess ==
    (pc[1] = "idle" /\ op[1] = "port_forward" /\ pf.yielded # NoneVal) => AllDead

C1_Witness ==
    /\ pc[1] = "idle" /\ op[1] = "port_forward"
    /\ pf.yielded # NoneVal /\ pf.exit = "raise"
    /\ Len(procs) >= 2 /\ LastProc(procs).st = "killed"

NeverReady ==
    \A k \in 1..Len(procs) : procs[k].poll = "exited" \/ procs[k].conn = "fail"

\* C2: a target that is never ready (every attempt's process has exited by
\* the health check, or runs but refuses the connect) makes port_forward with
\* retries = n >= 1 raise after n attempts, and when the error reaches the
\* caller no process the session launched is running.
C2_ErrorLeavesNoProcess ==
    (/\ pc[1] = "idle" /\ op[1] = "port_forward"
     /\ err[1] \in {"Exception", "ConnectionRefusedError"}
     /\ pf.retries >= 1 /\ NeverReady)
    => (Len(procs) = pf.retries /\ AllDead)

\* C3: whenever port_forward yields a port, a process of the session was
\* launched with that port, was found running at its health check, accepted
\* the connect and is alive.
C3_YieldedPortIsLive ==
    pc[1] = "pf_block" =>
        \E k \in 1..Len(procs) :
            /\ procs[k].port = pf.yielded
            /\ procs[k].poll = "running"
            /\ procs[k].conn = "ok"
            /\ procs[k].st = "running"

C3_Witness ==
    /\ pc[1] = "pf_block"
    /\ Len(procs) >= 2
    /\ procs[1].conn = "fail"
    /\ LastProc(procs).port = pf.yielded

\* C4: once an attempt's process runs and accepts the connect, the attempt
\* loop is over: no further process is launched and that process stays alive
\* until the caller's block ends.
C4_SuccessEndsAttemptLoop ==
    \A k \in 1..Len(procs) :
        procs[k].conn = "ok" =>
            /\ k = Len(procs)
            /\ (procs[k].st = "running" \/ pf.exit # "none")

\* C5: create runs create-cluster only when `get clusters` does not list the
\* name; a create call that follows a successful create (no delete between)
\* runs no create-cluster, leaves the cluster in place and, the tool not
\* failing, raises nothing.
C5_CreateIdempotent ==
    /\ pc[1] = "cr_create" => cluster = 0
    /\ (op[1] = "create" /\ cr.startEv = "created") =>
          /\ cr.runs = 0
          /\ pc[1] # "cr_create"
          /\ cluster # 0
          /\ (pc[1] = "idle" /\ fault[1] = "none") => err[1] = "none"

C5_Witness ==
    /\ pc[1] = "idle" /\ op[1] = "create" /\ cr.startEv = "created"
    /\ err[1] = "none" /\ cr.runs = 0 /\ api.set /\ cluster # 0

\* C6: a create that follows a successful delete and returns has run
\* create-cluster again; the credentials file holds what that run wrote and
\* the API client is built from the credentials of the cluster now live.
C6_CreateAfterDeleteIsFresh ==
    (pc[1] = "idle" /\ op[1] = "create" /\ err[1] = "none"
        /\ cr.startEv = "deleted") =>
        /\ cr.runs >= 1
        /\ cluster # 0
        /\ kubeconfig = [exists |-> TRUE, creds |-> cluster]
        /\ api = [set |-> TRUE, creds |-> cluster]

C6_Witness ==
    /\ pc[1] = "idle" /\ op[1] = "create" /\ err[1] = "none"
    /\ cr.startEv = "deleted" /\ cr.runs >= 1
    /\ api.creds = 2 /\ cluster = 2

DownloadErrors == {"ConnectionError", "HTTPError", "ChunkedEncodingError"}

\* C7: two callers provisioning the same cache path at once: under every
\* interleaving the final path never holds an incomplete file, and no caller
\* fails for a reason other than its own download.
C7_RaceNeverCorruptsFinalPath ==
    /\ Exists(KindPath) => Complete(fs[KindPath])
    /\ \A p \in Callers : err[p] \in {"none"} \cup DownloadErrors

\* C8: with one caller, a file at a final cache path always holds a complete
\* download, and a download call that failed has left the final path naming
\* what it named before the call (nothing, or the file that was there).
C8_NoPartialFinalFile ==
    /\ \A q \in BinPaths : Exists(q) => Complete(fs[q])
    /\ (pc[1] = "idle" /\ fault[1] # "none") => fs[dl[1].path] = dl[1].before

C8_Witness ==
    /\ pc[1] = "idle" /\ fault[1] = "stream"
    /\ dl[1].before # 0 /\ Exists(dl[1].path)
    /\ Exists(TmpFile(dl[1].path))
    /\ Len(inodes[fs[TmpFile(dl[1].path)]].content) = 1

\* C9: once a binary is at its cache path, no step of any operation on the
\* handle starts a download of it, replaces the file or changes its content.
C9_NeverRedownloaded ==
    [][\A q \in BinPaths :
         Exists(q) =>
            /\ fs'[q] = fs[q]
            /\ inodes'[fs[q]] = inodes[fs[q]]
            /\ ~(pc[1] # "dl_get" /\ pc'[1] = "dl_get" /\ dl'[1].path = q)]_vars

C9_Witness ==
    /\ pc[1] = "kc_run" /\ op[1] = "kubectl"
    /\ dl[1] = NoDl /\ Exists(KubectlPath)
    /\ api.set

\* C10: self.api changes only in the step that ends a create call without
\* error; a failure injected into create (a tool exits non-zero, the download
\* fails) ends the call at once with an error and leaves self.api as it was.
C10_ApiOnlyAfterSuccessfulCreate ==
    [][/\ api' # api =>
            /\ op[1] = "create" /\ pc[1] = "cr_load"
            /\ pc'[1] = "idle" /\ err'[1] = "none"
       /\ (op[1] = "create" /\ fault[1] = "none" /\ fault'[1] # "none") =>
            /\ pc'[1] = "idle" /\ err'[1] # "none"
            /\ api' = api]_vars

C10_Witness ==
    /\ pc[1] = "idle" /\ op[1] = "create"
    /\ fault[1] = "exit" /\ err[1] = "CalledProcessError"
    /\ cr.runs >= 1 /\ api.set

\* C11: delete launches exactly one command, `kind delete cluster` with the
\* handle's name and its credentials path, and returns when that run is
\* over, with CalledProcessError if it exited non-zero; no step of a delete
\* call changes the cached binaries, the storage directory or a field of
\* the handle (name, paths, versions, API client).
C11_DeleteFrame ==
    [][op'[1] = "delete" =>
          /\ UNCHANGED <<fs, inodes, dirs, self, api>>
          /\ \A l \in launches' :
                l.cmd = [path |-> self.kind_path, sub |-> "delete cluster",
                         name |-> self.name, kubeconfig |-> self.kubeconfig_path]
          /\ pc[1] = "del_run" =>
                /\ Cardinality(launches') = 1
                /\ pc'[1] = "idle"
                /\ fault'[1] = "exit" => err'[1] = "CalledProcessError"]_vars

\* delete has returned on a handle that holds an API client
C11_Witness ==
    /\ op[1] = "delete" /\ pc[1] = "idle" /\ err[1] = "none"
    /\ launches # {} /\ api.set /\ hist = "deleted"

\* C12: constructing a handle, whatever its name and optional arguments,
\* launches no subprocess and starts no download: it is over in one step
\* that leaves the cluster registry, the cached binaries and the
\* credentials file as they were.
C12_ConstructionIsInert ==
    [][op'[1] = "__init__" =>
          /\ pc'[1] = "idle" /\ err'[1] = "none"
          /\ launches' = {} /\ procs' = <<>>
          /\ UNCHANGED <<fs, inodes, cluster, others, nextGen, kubeconfig>>]_vars

\* a handle of another name with an explicit kubeconfig path was built while
\* a cluster and its credentials file exist and no kind binary is cached
C12_Witness ==
    /\ op[1] = "__init__" /\ pc[1] = "idle"
    /\ self.name = OtherName /\ ctor.kubeconfig = CustomKubeconfig
    /\ ctor.platform = "windows" /\ StorageDir(OtherName) \in dirs
    /\ cluster = 1 /\ kubeconfig.creds = 1 /\ fs[KindPath] = 0

\* the credentials path the constructor's arguments determine
ExpectedKubeconfigPath ==
    IF ctor.kubeconfig = NoPath
    THEN [dir |-> <<".pytest-kind", ctor.name>>, file |-> <<"kubeconfig">>]
    ELSE ctor.kubeconfig

\* C13: the handle's name is the name it was constructed with and its
\* credentials path the explicit kubeconfig argument, or else the path
\* derived from the name alone; they stay so through every operation, and
\* every create-cluster, delete-cluster, kubectl and port-forward command
\* launched is handed that credentials path.
C13_NameAndKubeconfigFixed ==
    /\ self.name = ctor.name
    /\ self.kubeconfig_path = ExpectedKubeconfigPath
    /\ \A l \in launches :
         /\ l.cmd.sub \in {"create cluster", "delete cluster", "args", "port-forward"}
              => l.cmd.kubeconfig = ExpectedKubeconfigPath
         /\ l.cmd.sub \in {"create cluster", "delete cluster", "load docker-image"}
              => l.cmd.name = ctor.name

\* a create call on a handle built with an explicit kubeconfig has run
\* create-cluster and delete-cluster and has returned
C13_Witness ==
    /\ op[1] = "create" /\ pc[1] = "idle" /\ err[1] = "none"
    /\ ctor.kubeconfig = CustomKubeconfig
    /\ \E l \in launches : l.cmd.sub = "create cluster"
    /\ \E l \in launches : l.cmd.sub = "delete cluster"

\* C14: every command a create or kubectl call launches finds its binary at
\* the cache path (the presence check, and the download of an absent
\* binary, came first), and a call whose download failed has launched
\* nothing.
C14_LaunchOnlyWhenPresent ==
    op[1] \in {"create", "kubectl"} =>
        /\ \A l \in launches : l.present
        /\ fault[1] \in {"network", "status", "stream"} => launches = {}

\* kubectl found no binary when it was called, downloaded it and ran it
C14_Witness ==
    /\ op[1] = "kubectl" /\ pc[1] = "idle" /\ err[1] = "none"
    /\ dl[1].path = KubectlPath /\ dl[1].before = 0
    /\ \E l \in launches : l.cmd.path = self.kubectl_path /\ l.present

\* C15: at most one port-forward process of a session is alive at any time:
\* when an attempt is about to launch its process, every process launched
\* before it (exited by itself, or still running after a failed connect)
\* is dead.
C15_OneLiveProcess ==
    /\ Cardinality({k \in 1..Len(procs) : procs[k].st = "running"}) <= 1
    /\ pc[1] = "pf_launch" => AllDead

\* an attempt whose process kept running but did not accept the connection
\* was followed by a new attempt, whose process runs
C15_Witness ==
    /\ Len(procs) >= 2
    /\ procs[1].poll = "running" /\ procs[1].conn = "fail" /\ procs[1].st = "killed"
    /\ procs[2].st = "running"

\* the call is over with an error of its own (not one of the caller's block)
PfRaised ==
    op[1] = "port_forward" /\ pc[1] = "idle" /\ err[1] \notin {"none", "BlockError"}

\* C16 as stated: port_forward raises only on its final attempt (index
\* retries - 1), with the exit error if the process had exited and the
\* connection error if the connect failed, and launches no more than
\* `retries` processes.
C16_RaisesOnlyOnFinalAttempt ==
    /\ op[1] = "port_forward" => Len(procs) <= pf.retries
    /\ PfRaised =>
         /\ pf.i = pf.retries - 1
         /\ procs # <<>>
         /\ LastProc(procs).poll = "exited" => err[1] = "Exception"
         /\ LastProc(procs).conn = "fail" => err[1] = "ConnectionRefusedError"

\* C16 amended: an error about an attempt's outcome is raised only on the
\* final attempt, after every earlier attempt was followed by a new one: the
\* exit error if the last process had exited, the connection error if it
\* ran and the connect failed; no call launches more than `retries`
\* processes.  The other errors of port_forward are the launch failure
\* (kubectl not at its path), raised on the attempt it happens in, and
\* UnboundLocalError when retries is 0 or less.
C16_AttemptErrorsOnlyOnFinalAttempt ==
    /\ op[1] = "port_forward" => Len(procs) <= pf.retries
    /\ PfRaised =>
         /\ err[1] \in {"Exception", "ConnectionRefusedError",
                        "FileNotFoundError", "UnboundLocalError"}
         /\ err[1] \in {"Exception", "ConnectionRefusedError"} =>
              /\ pf.i = pf.retries - 1
              /\ Len(procs) = pf.retries
              /\ err[1] = "Exception" <=> LastProc(procs).poll = "exited"
              /\ err[1] = "ConnectionRefusedError" <=>
                    (LastProc(procs).poll = "running" /\ LastProc(procs).conn = "fail")
         /\ err[1] = "FileNotFoundError" => ~Exists(KubectlPath) /\ procs = <<>>
         /\ err[1] = "UnboundLocalError" => pf.retries <= 0 /\ procs = <<>>

\* the third of three attempts raised the connection error, after an
\* attempt whose process exited and one whose connect failed
C16_Witness ==
    /\ PfRaised /\ err[1] = "ConnectionRefusedError"
    /\ pf.retries = 3 /\ Len(procs) = 3
    /\ procs[1].poll = "exited" /\ procs[2].conn = "fail"


\* C17 as stated: a missing credentials file after the create-or-reuse step
\* sends create to delete and then back to `get clusters`, and a create
\* call that has found the file absent after every attempt so far is never
\* over: it neither returns nor raises.
C17_AbsentNeverReturnsNorRaises ==
    (op[1] = "create" /\ cr.lastCheck = "absent") =>
        /\ pc[1] \in {"cr_delete", "cr_get", "cr_create", "cr_check"}
        /\ pc[1] = "cr_get" => cluster = 0

\* C17 amended: whenever the credentials file does not exist after the
\* create-or-reuse step, create runs delete-cluster next and, that run
\* exiting 0, `get clusters` after it; the loop has no bound.  A create
\* call that has found the file absent after every attempt never returns;
\* it ends only by the CalledProcessError of a tool run (get clusters,
\* create cluster, delete cluster) that exits non-zero.
C17_RepairLoop ==
    [][op[1] = "create" =>
          /\ pc[1] = "cr_check" =>
                pc'[1] = IF kubeconfig.exists THEN "cr_load" ELSE "cr_delete"
          /\ pc[1] = "cr_delete" =>
                /\ \E l \in launches' : l.cmd.sub = "delete cluster"
                /\ \/ pc'[1] = "cr_get" /\ cluster' = 0
                   \/ pc'[1] = "idle" /\ fault'[1] = "exit"
          /\ pc'[1] = "cr_load" => pc[1] = "cr_check" /\ kubeconfig.exists
          /\ (cr'.lastCheck = "absent" /\ pc'[1] = "idle") =>
                err'[1] = "CalledProcessError" /\ fault'[1] = "exit"]_vars

\* the file was absent after each of RunsCap create-cluster runs of one
\* call, which has deleted the cluster again and is back at `get clusters`
C17_Witness ==
    /\ op[1] = "create" /\ pc[1] = "cr_get"
    /\ cr.lastCheck = "absent" /\ cr.runs = RunsCap /\ cluster = 0

\* C18: every attempt of a port_forward call uses the local_port the caller
\* passed, whatever its value, and a port drawn from [5000, 30000) when
\* none was passed; the port yielded is the port of the last attempt, whose
\* process is the one alive in the block, and is at least 1024 when no
\* local_port was passed.
C18_PortIsGivenOrRandom ==
    op[1] = "port_forward" =>
        /\ \A k \in 1..Len(procs) :
             /\ pf.local_port # NoneVal => procs[k].port = pf.local_port
             /\ pf.local_port = NoneVal => procs[k].port \in PortLo..(PortHi - 1)
        /\ pf.yielded # NoneVal =>
             /\ pf.yielded = LastProc(procs).port
             /\ pf.local_port = NoneVal => pf.yielded >= 1024

\* C19: whenever create has returned without error, the credentials file
\* exists and holds the credentials a create-cluster run wrote for the
\* cluster now listed under the name, never the empty placeholder of
\* create's own touch; so too when the cluster was listed and the file
\* absent at the call.
C19_ReturnedCreateHasWrittenCredentials ==
    (op[1] = "create" /\ pc[1] = "idle" /\ err[1] = "none") =>
        /\ kubeconfig.exists
        /\ kubeconfig.creds # 0
        /\ kubeconfig.creds = cluster

\* the positions inside ensure_kind, ensure_kubectl and download_to_path
ProvisionerSteps ==
    {"ek_check", "eu_check", "dl_get", "dl_open", "dl_write", "dl_chmod", "dl_rename"}

\* C20: no step of a port_forward, delete or load_docker_image call enters
\* the binary provisioner or changes the cached files; the tool is launched
\* at its cache path with no presence check, and a launch that finds no
\* binary there ends the call with FileNotFoundError, the binary still
\* absent.
C20_NoProvisioning ==
    [][op'[1] \in {"port_forward", "delete", "load_docker_image"} =>
          /\ UNCHANGED <<fs, inodes>>
          /\ pc'[1] \notin ProvisionerSteps
          /\ \A l \in launches' :
                l.cmd.path = IF op'[1] = "port_forward" THEN self.kubectl_path
                             ELSE self.kind_path
          /\ pc[1] \in {"del_run", "ld_run", "pf_launch"} =>
                LET bin == IF op[1] = "port_forward" THEN KubectlPath ELSE KindPath
                IN /\ \E l \in launches' : l.present = Exists(bin)
                   /\ ~Exists(bin) =>
                        pc'[1] = "idle" /\ err'[1] = "FileNotFoundError"]_vars

\* load_docker_image on a handle whose kind binary was never provisioned
\* has launched the absent binary and failed; the binary is still absent
C20_Witness ==
    /\ op[1] = "load_docker_image" /\ pc[1] = "idle"
    /\ err[1] = "FileNotFoundError"
    /\ \E l \in launches : ~l.present
    /\ ~Exists(KindPath)
====
